---- MODULE Spec2Model ----
(***************************************************************************)
(* Model of the clrs-algos crate: quick sort (Lomuto and Hoare             *)
(* partitioning), merge sort, heap sort, bubble sort, count sort and the   *)
(* two maximum-subarray routines.  Every routine is a synchronous function *)
(* of one slice, so each is an operator computed the way the Rust code     *)
(* computes it, and one action per entry point applies it to an input      *)
(* drawn by Init.  hoare_partitioning is also run pass by pass.            *)
(*                                                                         *)
(* Slices are TLA+ sequences.  The code indexes from 0: At, SwapAt, SetAt  *)
(* and Slice take the code's 0-based indices.                              *)
(*                                                                         *)
(* Elements of the comparison sorts are pairs <<key, tag>>: the key is     *)
(* what PartialOrd compares, the tag is the position the element had at    *)
(* entry (an element type whose ordering looks at the key only).           *)
(***************************************************************************)
EXTENDS Integers, Sequences, FiniteSets

\* ---------------------------------------------------------------- bounds
\* longest input slice
MaxLen == 4
\* usize::MAX of the modelled target: keys of the count table are 0..UsizeMax
UsizeMax == 3
\* the element type T reaches NegSpan below zero ...
NegSpan == 2
\* ... and one past usize::MAX (a T wider than usize, e.g. u128 or i128)
MinVal == 0 - NegSpan
MaxVal == UsizeMax + 1
Values == MinVal..MaxVal

RECURSIVE SeqsOfLen(_)
SeqsOfLen(n) ==
    IF n = 0 THEN {<<>>}
    ELSE {Append(s, v) : s \in SeqsOfLen(n - 1), v \in Values}

RECURSIVE SeqsUpTo(_)
SeqsUpTo(n) == IF n = 0 THEN SeqsOfLen(0) ELSE SeqsUpTo(n - 1) \cup SeqsOfLen(n)

Inputs == SeqsUpTo(MaxLen)

\* ------------------------------------------------------- slices, options
At(s, i) == s[i + 1]
SetAt(s, i, v) == [s EXCEPT ![i + 1] = v]
SwapAt(s, i, j) == [s EXCEPT ![i + 1] = s[j + 1], ![j + 1] = s[i + 1]]
\* &src[lo..hi]
Slice(s, lo, hi) == SubSeq(s, lo + 1, hi)

None == <<>>
Some(v) == <<v>>
Unwrap(o) == o[1]

\* the element the code sorts: key and origin tag
Key(e) == e[1]
TagOf(e) == e[2]
Tagged(s) == [i \in 1..Len(s) |-> <<s[i], i>>]
Keys(s) == [i \in 1..Len(s) |-> Key(s[i])]
\* T::default(): the key 0, with a tag no input element carries
DefaultElem == <<0, 0>>

\* ------------------------------------------------------------ quick sort
Partitioners == {"Lomuto", "Hoare"}

\* src[0] > src[1] of the length-2 arm
quick_sort_gt(a, b) == Key(a) > Key(b)

\* the comparison turned around
lomuto_ge(a, b) == Key(a) >= Key(b)

\* a strict comparison: duplicates of the pivot go right
lomuto_lt(a, b) == Key(a) < Key(b)

\* src[greater_than_pivot_end] <= src[pivot_idx]
lomuto_le(a, b) == Key(a) <= Key(b)

\* the for loop of lomuto_partitioning, from greater_than_pivot_end = j on
RECURSIVE lomuto_loop(_, _, _)
lomuto_loop(src, greater_than_pivot_start, j) ==
    LET pivot_idx == Len(src) - 1 IN
    IF j >= pivot_idx
    THEN [src |-> src, start |-> greater_than_pivot_start]
    ELSE IF lomuto_le(At(src, j), At(src, pivot_idx))
         THEN lomuto_loop(SwapAt(src, greater_than_pivot_start, j),
                          greater_than_pivot_start + 1, j + 1)
         ELSE lomuto_loop(src, greater_than_pivot_start, j + 1)

\* src.len() - 1 underflows on the empty slice: with overflow checks the
\* subtraction panics, without them the first src[..] of the loop does
lomuto_partitioning(src) ==
    IF Len(src) = 0
    THEN [src |-> src, q |-> 0, panicked |-> TRUE]
    ELSE LET pivot_idx == Len(src) - 1
             after == lomuto_loop(src, 0, 0)
             proper_pivot_idx == after.start
         IN  [src |-> SwapAt(after.src, pivot_idx, proper_pivot_idx),
              q |-> proper_pivot_idx,
              panicked |-> FALSE]

\* a strict comparison in the 'g loop
RECURSIVE hoare_g_loop_strict(_, _, _)
hoare_g_loop_strict(src, pivot_idx, g) ==
    LET g1 == g - 1 IN
    IF g1 < 0 THEN g1
    ELSE IF Key(At(src, g1)) < Key(At(src, pivot_idx))
    THEN g1
    ELSE hoare_g_loop_strict(src, pivot_idx, g1)

\* 'g: loop, entered with the cursor at g: decrement, test against src[pivot_idx].
\* A cursor below 0 is the usize underflow of `-= 1` (a panic, at the
\* subtraction or at the indexing that follows).
RECURSIVE hoare_g_loop(_, _, _)
hoare_g_loop(src, pivot_idx, g) ==
    LET g1 == g - 1 IN
    IF g1 < 0 THEN g1
    ELSE IF Key(At(src, g1)) <= Key(At(src, pivot_idx))
    THEN g1
    ELSE hoare_g_loop(src, pivot_idx, g1)

\* the left cursor stepping on every pass
hoare_l_step_always(less_than_pivot_end) == less_than_pivot_end + 1

\* the step of the left cursor: it moves only once it is past 0
hoare_l_step(less_than_pivot_end) ==
    IF less_than_pivot_end = 0 THEN less_than_pivot_end ELSE less_than_pivot_end + 1

\* 'l: loop; a cursor at src.len() is an index out of bounds (a panic)
RECURSIVE hoare_l_loop(_, _, _)
hoare_l_loop(src, pivot_idx, l) ==
    LET l1 == hoare_l_step(l) IN
    IF l1 >= Len(src) THEN l1
    ELSE IF Key(At(src, l1)) >= Key(At(src, pivot_idx))
    THEN l1
    ELSE hoare_l_loop(src, pivot_idx, l1)

\* one pass of the outer loop of hoare_partitioning: both cursor loops, then
\* the swap or the break.  pivot is the value the cursors were compared against.
hoare_iter(src, pivot_idx, l, g) ==
    LET g1 == hoare_g_loop(src, pivot_idx, g)
        l1 == IF g1 < 0 THEN l ELSE hoare_l_loop(src, pivot_idx, l)
        pivot == IF pivot_idx < Len(src) THEN Some(Key(At(src, pivot_idx))) ELSE None
    IN  IF g1 < 0 \/ l1 >= Len(src)
        THEN [src |-> src, l |-> l1, g |-> g1, pivot |-> pivot, state |-> "panicked"]
        ELSE IF l1 < g1
        THEN [src |-> SwapAt(src, l1, g1), l |-> l1, g |-> g1, pivot |-> pivot,
              state |-> "looping"]
        ELSE [src |-> src, l |-> l1, g |-> g1, pivot |-> pivot, state |-> "returned"]

\* the outer loop of hoare_partitioning
RECURSIVE hoare_loop(_, _, _, _)
hoare_loop(src, pivot_idx, l, g) ==
    LET it == hoare_iter(src, pivot_idx, l, g) IN
    IF it.state = "looping"
    THEN hoare_loop(it.src, pivot_idx, it.l, it.g)
    ELSE [src |-> it.src, q |-> it.g, panicked |-> it.state = "panicked"]

hoare_partitioning(src) == hoare_loop(src, 0, 0, Len(src))

\* Partitioner::run
run(partitioner, src) ==
    IF partitioner = "Lomuto"
    THEN LET p == lomuto_partitioning(src)
         IN  [src |-> p.src, end_left |-> p.q, start_right |-> p.q + 1,
              panicked |-> p.panicked]
    ELSE LET p == hoare_partitioning(src)
         IN  [src |-> p.src, end_left |-> p.q + 1, start_right |-> p.q + 1,
              panicked |-> p.panicked]

RECURSIVE quick_sort(_, _)
RECURSIVE quick_sort_impl(_, _)
quick_sort(src, partitioner) ==
    IF Len(src) <= 1 THEN src
    ELSE IF Len(src) = 2
         THEN IF quick_sort_gt(At(src, 0), At(src, 1)) THEN SwapAt(src, 0, 1) ELSE src
         ELSE quick_sort_impl(src, partitioner)

quick_sort_impl(src, partitioner) ==
    LET r == run(partitioner, src)
        left == quick_sort(Slice(r.src, 0, r.end_left), partitioner)
        right == quick_sort(Slice(r.src, r.start_right, Len(r.src)), partitioner)
    IN  left \o Slice(r.src, r.end_left, r.start_right) \o right

\* ------------------------------------------------------------ merge sort
\* a strict comparison: the right run wins a tie
merge_lt(a, b) == Key(a) < Key(b)

\* src[i] <= src[j]: the left run wins a tie
merge_le(a, b) == Key(a) <= Key(b)

\* the while loop of merge; std::mem::take leaves T::default() behind
RECURSIVE merge_loop(_, _, _, _, _, _)
merge_loop(src, tmp, mid, i, j, tmp_idx) ==
    IF ~(i < mid \/ j < Len(src))
    THEN [src |-> src, tmp |-> tmp]
    ELSE IF i = mid
         THEN merge_loop(SetAt(src, j, DefaultElem), SetAt(tmp, tmp_idx, At(src, j)),
                         mid, i, j + 1, tmp_idx + 1)
    ELSE IF j = Len(src)
         THEN merge_loop(SetAt(src, i, DefaultElem), SetAt(tmp, tmp_idx, At(src, i)),
                         mid, i + 1, j, tmp_idx + 1)
    ELSE IF merge_le(At(src, i), At(src, j))
         THEN merge_loop(SetAt(src, i, DefaultElem), SetAt(tmp, tmp_idx, At(src, i)),
                         mid, i + 1, j, tmp_idx + 1)
         ELSE merge_loop(SetAt(src, j, DefaultElem), SetAt(tmp, tmp_idx, At(src, j)),
                         mid, i, j + 1, tmp_idx + 1)

\* the copy back left out
no_clone_from_slice(src, tmp) == src

\* src.clone_from_slice(&tmp)
clone_from_slice(src, tmp) == [k \in 1..Len(src) |-> tmp[k]]

merge(src, mid) ==
    LET tmp == [k \in 1..Len(src) |-> DefaultElem]
        after == merge_loop(src, tmp, mid, 0, mid, 0)
    IN  clone_from_slice(after.src, after.tmp)

RECURSIVE merge_sort(_)
RECURSIVE merge_sort_impl(_)
merge_sort(src) ==
    IF Len(src) <= 1 THEN src
    ELSE IF Len(src) = 2
         THEN IF Key(At(src, 0)) > Key(At(src, 1)) THEN SwapAt(src, 0, 1) ELSE src
         ELSE merge_sort_impl(src)

merge_sort_impl(src) ==
    LET q == (Len(src) + 1) \div 2
        conquered == merge_sort(Slice(src, 0, q)) \o merge_sort(Slice(src, q, Len(src)))
    IN  merge(conquered, q)

\* ----------------------------------------------------------- bubble sort
\* src.len() - 1 in usize.  On the empty slice the subtraction underflows: a
\* build with overflow checks (debug) panics, a build without (release) wraps
\* to usize::MAX.
usize_len_minus_one(len, overflow_checks) ==
    IF len >= 1 THEN Some(len - 1)
    ELSE IF overflow_checks THEN None ELSE Some(UsizeMax)

\* for j in (i + 1..src.len()).rev(), from j on
RECURSIVE bubble_rl_inner(_, _, _)
bubble_rl_inner(src, i, j) ==
    IF j < i + 1 THEN src
    ELSE bubble_rl_inner(IF Key(At(src, j)) < Key(At(src, j - 1))
                         THEN SwapAt(src, j, j - 1) ELSE src,
                         i, j - 1)

\* for i in 0..src.len() - 1, from i on
RECURSIVE bubble_rl_outer(_, _, _)
bubble_rl_outer(src, i, end) ==
    IF i >= end THEN src
    ELSE bubble_rl_outer(bubble_rl_inner(src, i, Len(src) - 1), i + 1, end)

bubble_sort_rl(src, overflow_checks) ==
    LET end == usize_len_minus_one(Len(src), overflow_checks) IN
    IF end = None
    THEN [src |-> src, panicked |-> TRUE]
    ELSE [src |-> bubble_rl_outer(src, 0, Unwrap(end)), panicked |-> FALSE]

\* for j in 0..i, from j on
RECURSIVE bubble_lr_inner(_, _, _)
bubble_lr_inner(src, i, j) ==
    IF j >= i THEN src
    ELSE bubble_lr_inner(IF Key(At(src, j)) > Key(At(src, j + 1))
                         THEN SwapAt(src, j, j + 1) ELSE src,
                         i, j + 1)

\* for i in (1..src.len()).rev(), from i on
RECURSIVE bubble_lr_outer(_, _)
bubble_lr_outer(src, i) ==
    IF i < 1 THEN src
    ELSE bubble_lr_outer(bubble_lr_inner(src, i, 0), i - 1)

bubble_sort_lr(src) == bubble_lr_outer(src, Len(src) - 1)

\* ------------------------------------------------------------- heap sort
\* the reduce of max_heapify over the nodes of the subtree that lie inside the
\* slice: the position, among those, of the largest; a later node wins a tie
RECURSIVE heap_reduce(_, _, _, _)
heap_reduce(src, present, acc, k) ==
    IF k > Len(present) THEN acc
    ELSE IF Key(At(src, present[acc])) > Key(At(src, present[k]))
         THEN heap_reduce(src, present, acc, k + 1)
         ELSE heap_reduce(src, present, k, k + 1)

RECURSIVE max_heapify(_, _)
max_heapify(src, start_from) ==
    LET parent_index == start_from
        subtree == <<parent_index, parent_index * 2 + 1, parent_index * 2 + 2>>
        \* filter_map(|&idx| src.get(idx))
        present == SelectSeq(subtree, LAMBDA idx : idx < Len(src))
        \* enumerate() numbers the nodes that are left; subtree[idx] maps back
        largest_index == subtree[heap_reduce(src, present, 1, 2)]
    IN  IF parent_index # largest_index
        THEN max_heapify(SwapAt(src, parent_index, largest_index), largest_index)
        ELSE src

\* for node_index in (0..=last_leaf_parent_index).rev(), from node_index on
RECURSIVE build_heap_loop(_, _)
build_heap_loop(src, node_index) ==
    IF node_index < 0 THEN src
    ELSE build_heap_loop(max_heapify(src, node_index), node_index - 1)

build_max_heap(src) ==
    LET last_leaf_index == Len(src) - 1
        last_leaf_parent_index ==
            IF last_leaf_index % 2 = 0
            THEN last_leaf_index \div 2 - 1
            ELSE last_leaf_index \div 2
    IN  build_heap_loop(src, last_leaf_parent_index)

\* for node_index in (1..heap_size).rev(), from node_index on; heap_size is
\* node_index after the decrement
RECURSIVE heap_sort_loop(_, _)
heap_sort_loop(src, node_index) ==
    IF node_index < 1 THEN src
    ELSE LET swapped == SwapAt(src, 0, node_index)
             heap == max_heapify(Slice(swapped, 0, node_index), 0)
         IN  heap_sort_loop(heap \o Slice(swapped, node_index, Len(src)), node_index - 1)

heap_sort_impl(src) == heap_sort_loop(build_max_heap(src), Len(src) - 1)

heap_sort(src) ==
    IF Len(src) <= 1 THEN src
    ELSE IF Len(src) = 2
         THEN IF Key(At(src, 0)) > Key(At(src, 1)) THEN SwapAt(src, 0, 1) ELSE src
         ELSE heap_sort_impl(src)

\* ------------------------------------------------------------ count sort
\* TryInto::<usize>::try_into(v).ok()
TryIntoUsize(v) == IF 0 <= v /\ v <= UsizeMax THEN Some(v) ELSE None

RECURSIVE SeqMin(_)
SeqMin(s) ==
    IF Len(s) = 1 THEN s[1]
    ELSE LET m == SeqMin(Tail(s)) IN IF s[1] <= m THEN s[1] ELSE m

RECURSIVE SeqMax(_)
SeqMax(s) ==
    IF Len(s) = 1 THEN s[1]
    ELSE LET m == SeqMax(Tail(s)) IN IF s[1] >= m THEN s[1] ELSE m

\* src.iter().min().copied().map(try_into).map(Result::ok).flatten()
min_element(keys) == IF Len(keys) = 0 THEN None ELSE TryIntoUsize(SeqMin(keys))

\* the guard without the test of the minimum
count_sort_len_only(keys) == Len(keys) > 1

\* the guard of count_sort: min_element.is_some() && src.len() > 1
count_sort_applies(keys) == min_element(keys) # None /\ Len(keys) > 1

\* max_element + 1 in usize.  Past usize::MAX a debug build panics on the
\* addition; a release build wraps to 0, allocates an empty table and panics on
\* the first keys_count[key].  Either way the call aborts before src is written.
table_len(max_element) ==
    IF max_element + 1 > UsizeMax THEN None ELSE Some(max_element + 1)

\* the count started over at every occurrence
count_reset(old) == Some(1)

\* keys_count[key].or(Some(0)).map(|count| count + 1)
count_up(old) == Some((IF old = None THEN 0 ELSE Unwrap(old)) + 1)

\* first loop of count_sort_impl
RECURSIVE count_keys(_, _, _)
count_keys(src, keys_count, n) ==
    IF n >= Len(src) THEN keys_count
    ELSE LET key == TryIntoUsize(At(src, n)) IN
         IF key = None THEN count_keys(src, keys_count, n + 1)
         ELSE LET k == Unwrap(key)
              IN  count_keys(src, SetAt(keys_count, k, count_up(At(keys_count, k))), n + 1)

\* inner while of the second loop: write `count` copies of T::from_usize(key)
RECURSIVE emit_key(_, _, _, _)
emit_key(src, src_idx, key, count) ==
    IF count = 0 THEN [src |-> src, src_idx |-> src_idx]
    ELSE emit_key(SetAt(src, src_idx, key), src_idx + 1, key, count - 1)

\* second loop of count_sort_impl: keys in increasing order
RECURSIVE emit_keys(_, _, _, _)
emit_keys(src, keys_count, key, src_idx) ==
    IF key >= Len(keys_count) THEN src
    ELSE LET count == At(keys_count, key) IN
         IF count = None THEN emit_keys(src, keys_count, key + 1, src_idx)
         ELSE LET e == emit_key(src, src_idx, key, Unwrap(count))
              IN  emit_keys(e.src, keys_count, key + 1, e.src_idx)

count_sort_impl(src, max_element) ==
    LET max_usize == TryIntoUsize(max_element) IN
    IF max_usize = None
    THEN [src |-> src, panicked |-> TRUE]          \* .expect(..) on None
    ELSE LET len == table_len(Unwrap(max_usize)) IN
         IF len = None
         THEN [src |-> src, panicked |-> TRUE]
         ELSE LET empty == [k \in 1..Unwrap(len) |-> None]
                  keys_count == count_keys(src, empty, 0)
              IN  [src |-> emit_keys(src, keys_count, 0, 0), panicked |-> FALSE]

\* count_sort is declared without a return type: every call that returns yields ()
count_sort_ret(src) == "()"

count_sort(src) ==
    IF count_sort_applies(src)
    THEN count_sort_impl(src, SeqMax(src))
    ELSE [src |-> src, panicked |-> FALSE]

\* --- the prefix-table variant of the doc comment of count_sort_impl,
\* on elements that carry a tag beside the key
RECURSIVE clrs_count_keys(_, _, _)
clrs_count_keys(src, keys_count, n) ==
    IF n >= Len(src) THEN keys_count
    ELSE LET key == TryIntoUsize(Key(At(src, n))) IN
         IF key = None THEN clrs_count_keys(src, keys_count, n + 1)
         ELSE clrs_count_keys(src,
                  SetAt(keys_count, Unwrap(key), At(keys_count, Unwrap(key)) + 1), n + 1)

\* for idx in 0..keys_count.len(): if idx != 0 { keys_count[idx] += keys_count[idx - 1] }
RECURSIVE clrs_prefix(_, _)
clrs_prefix(keys_count, idx) ==
    IF idx >= Len(keys_count) THEN keys_count
    ELSE IF idx # 0
         THEN clrs_prefix(SetAt(keys_count, idx,
                                At(keys_count, idx) + At(keys_count, idx - 1)), idx + 1)
         ELSE clrs_prefix(keys_count, idx + 1)

\* the scan order of the placing loop: `for &key in &src[..]`, front to back
clrs_scan_next(n) == n + 1

\* sorted[keys_count[key] - 1] = key; keys_count[key] -= 1
RECURSIVE clrs_place(_, _, _, _)
clrs_place(src, sorted, keys_count, n) ==
    IF n < 0 \/ n >= Len(src) THEN sorted
    ELSE LET key == TryIntoUsize(Key(At(src, n))) IN
         IF key = None THEN clrs_place(src, sorted, keys_count, clrs_scan_next(n))
         ELSE LET k == Unwrap(key) IN
              clrs_place(src,
                         SetAt(sorted, At(keys_count, k) - 1, At(src, n)),
                         SetAt(keys_count, k, At(keys_count, k) - 1),
                         clrs_scan_next(n))

count_sort_impl_clrs(src, max_element) ==
    LET max_usize == TryIntoUsize(max_element) IN
    IF max_usize = None
    THEN [src |-> src, panicked |-> TRUE]
    ELSE LET len == table_len(Unwrap(max_usize)) IN
         IF len = None
         THEN [src |-> src, panicked |-> TRUE]
         ELSE LET sorted == [k \in 1..Len(src) |-> DefaultElem]
                  counted == clrs_count_keys(src, [k \in 1..Unwrap(len) |-> 0], 0)
                  keys_count == clrs_prefix(counted, 0)
              IN  [src |-> clrs_place(src, sorted, keys_count, 0), panicked |-> FALSE]

count_sort_clrs(src) ==
    IF count_sort_applies(Keys(src))
    THEN count_sort_impl_clrs(src, SeqMax(Keys(src)))
    ELSE [src |-> src, panicked |-> FALSE]

\* ---------------------------------------------------------- max subarray
\* a result (Option<&[T]>, T): the slice as its half-open offsets <<lo, hi>>
Result(rng, sum) == [rng |-> rng, sum |-> sum, aborted |-> FALSE]
\* the call never returns: unbounded recursion exhausts the stack
StackOverflow == [rng |-> None, sum |-> 0, aborted |-> TRUE]

\* a strict comparison: a run that ties the best is not recorded
kadane_gt(cur_sum, max_sum) == cur_sum > max_sum

\* cur_sum >= max_sum: a run that ties the best replaces it
kadane_ge(cur_sum, max_sum) == cur_sum >= max_sum

RECURSIVE kadane_loop(_, _, _, _, _, _, _)
kadane_loop(src, i, max_sum, cur_sum, left, right, cur_left) ==
    IF i >= Len(src) THEN [left |-> left, right |-> right, max_sum |-> max_sum]
    ELSE LET cs == cur_sum + At(src, i) IN
         IF kadane_ge(cs, max_sum)
         THEN kadane_loop(src, i + 1, cs, cs, Some(cur_left), Some(i), cur_left)
         ELSE IF cs < 0
              THEN kadane_loop(src, i + 1, max_sum, 0, left, right, i + 1)
              ELSE kadane_loop(src, i + 1, max_sum, cs, left, right, cur_left)

find_max_sum_subarray_kadane(src) ==
    LET r == kadane_loop(src, 0, 0, 0, None, None, 0) IN
    IF r.left = None /\ r.right = None
    THEN Result(None, 0)
    ELSE Result(Some(<<Unwrap(r.left), Unwrap(r.right) + 1>>), r.max_sum)

\* for i in (0..mid).rev()
RECURSIVE cross_left(_, _, _, _, _)
cross_left(src, i, cur_sum, left_sum, left) ==
    IF i < 0 THEN [sum |-> left_sum, idx |-> left]
    ELSE LET cs == cur_sum + At(src, i) IN
         IF cs >= left_sum
         THEN cross_left(src, i - 1, cs, cs, Some(i))
         ELSE cross_left(src, i - 1, cs, left_sum, left)

\* for j in mid..src.len()
RECURSIVE cross_right(_, _, _, _, _)
cross_right(src, j, cur_sum, right_sum, right) ==
    IF j >= Len(src) THEN [sum |-> right_sum, idx |-> right]
    ELSE LET cs == cur_sum + At(src, j) IN
         IF cs >= right_sum
         THEN cross_right(src, j + 1, cs, cs, Some(j))
         ELSE cross_right(src, j + 1, cs, right_sum, right)

find_max_sum_cross_subarray(src, mid) ==
    LET l == cross_left(src, mid - 1, 0, 0, None)
        r == cross_right(src, mid, 0, 0, None)
    IN  IF l.idx = None /\ r.idx = None
        THEN Result(None, 0)
        ELSE LET left == IF l.idx = None THEN mid ELSE Unwrap(l.idx)
                 right == IF r.idx = None THEN mid ELSE Unwrap(r.idx) + 1
             IN  Result(Some(<<left, right>>), l.sum + r.sum)

\* x.map(|a| a.len())
OptLen(rng) == IF rng = None THEN None ELSE Some(Unwrap(rng)[2] - Unwrap(rng)[1])

\* the lengths compared the wrong way round: the shorter slice wins
OptCmpShorter(x, y) ==
    IF x = None THEN (IF y = None THEN 0 ELSE -1)
    ELSE IF y = None THEN 1
    ELSE IF Unwrap(x) < Unwrap(y) THEN 1
    ELSE IF Unwrap(x) > Unwrap(y) THEN -1 ELSE 0

\* Option<usize>::cmp: None is less than every Some
OptCmp(x, y) ==
    IF x = None THEN (IF y = None THEN 0 ELSE -1)
    ELSE IF y = None THEN 1
    ELSE IF Unwrap(x) < Unwrap(y) THEN -1
    ELSE IF Unwrap(x) > Unwrap(y) THEN 1 ELSE 0

\* the sums compared the wrong way round
dc_cmp_reversed(x, y) ==
    IF x.sum < y.sum THEN 1
    ELSE IF x.sum > y.sum THEN -1
    ELSE OptCmp(OptLen(x.rng), OptLen(y.rng))

\* the closure of max_by: x_sum.cmp(&y_sum).then_with(lengths)
dc_cmp(x, y) ==
    IF x.sum < y.sum THEN -1
    ELSE IF x.sum > y.sum THEN 1
    ELSE OptCmp(OptLen(x.rng), OptLen(y.rng))

\* Iterator::max_by over [l, r, c]: the last of several maxima is returned
max_by(l, r, c) ==
    LET lr == IF dc_cmp(l, r) = 1 THEN l ELSE r
    IN  IF dc_cmp(lr, c) = 1 THEN lr ELSE c

\* the slice a call on &src[mid..] returns, as offsets into src
Shift(res, mid) ==
    IF res.rng = None THEN res
    ELSE Result(Some(<<Unwrap(res.rng)[1] + mid, Unwrap(res.rng)[2] + mid>>), res.sum)

\* the single element returned whatever its sign
dc_single_unchecked(v) == Result(Some(<<0, 1>>), v)

\* the arm src.len() == 1
dc_single(v) == IF v >= 0 THEN Result(Some(<<0, 1>>), v) ELSE Result(None, 0)

RECURSIVE find_max_sum_subarray_dc(_)
find_max_sum_subarray_dc(src) ==
    IF Len(src) = 0
    THEN StackOverflow      \* mid = 0: the first recursive call is on &src[0..0] again
    ELSE IF Len(src) = 1
    THEN dc_single(At(src, 0))
    ELSE LET mid == Len(src) \div 2
             l == find_max_sum_subarray_dc(Slice(src, 0, mid))
             r == Shift(find_max_sum_subarray_dc(Slice(src, mid, Len(src))), mid)
             c == find_max_sum_cross_subarray(src, mid)
         IN  max_by(l, r, c)

\* ----------------------------------------------------------------- state
VARIABLES
    input,      \* the slice as the caller passes it (values of T)
    called,     \* the entry points called so far on it
    src,        \* the caller's slice after a sort returned or aborted
    panicked,   \* the call aborted (panic) instead of returning
    ret,        \* the value the sort returned
    kres,       \* what find_max_sum_subarray_kadane returned
    dres,       \* what find_max_sum_subarray_dc returned
    part        \* the locals of a hoare_partitioning call in progress

vars == <<input, called, src, panicked, ret, kres, dres, part>>

\* no hoare_partitioning call was made
Idle == [state |-> "idle", l |-> 0, g |-> 0, pivot_idx |-> 0, pivot |-> None]

Unit == "()"
NoCall == "no call"

Init ==
    /\ input \in Inputs
    /\ called = {}
    /\ src = input
    /\ panicked = FALSE
    /\ ret = NoCall
    /\ kres = NoCall
    /\ dres = NoCall
    /\ part = Idle

QuickSort(partitioner) ==
    /\ called = {}
    /\ called' = {partitioner}
    /\ src' = quick_sort(Tagged(input), partitioner)
    /\ ret' = Unit
    /\ UNCHANGED <<part, input, panicked, kres, dres>>

MergeSort ==
    /\ called = {}
    /\ called' = {"merge_sort"}
    /\ src' = merge_sort(Tagged(input))
    /\ ret' = Unit
    /\ UNCHANGED <<part, input, panicked, kres, dres>>

NextSort ==
    \/ QuickSort("Lomuto")
    \/ QuickSort("Hoare")
    \/ MergeSort

SpecSort == Init /\ [][NextSort]_vars

CountSort ==
    /\ called = {}
    /\ called' = {"count_sort"}
    /\ LET r == count_sort(input) IN
         /\ src' = r.src
         /\ panicked' = r.panicked
         /\ ret' = IF r.panicked THEN NoCall ELSE count_sort_ret(input)
    /\ UNCHANGED <<part, input, kres, dres>>

CountSortClrs ==
    /\ called = {}
    /\ called' = {"count_sort_clrs"}
    /\ LET r == count_sort_clrs(Tagged(input)) IN
         /\ src' = r.src
         /\ panicked' = r.panicked
         /\ ret' = IF r.panicked THEN NoCall ELSE Unit
    /\ UNCHANGED <<part, input, kres, dres>>

NextCount ==
    \/ CountSort
    \/ CountSortClrs

SpecCount == Init /\ [][NextCount]_vars

Kadane ==
    /\ "kadane" \notin called
    /\ called' = called \cup {"kadane"}
    /\ kres' = find_max_sum_subarray_kadane(input)
    /\ UNCHANGED <<part, input, src, panicked, ret, dres>>

DivideConquer ==
    /\ "dc" \notin called
    /\ called' = called \cup {"dc"}
    /\ dres' = find_max_sum_subarray_dc(input)
    /\ UNCHANGED <<part, input, src, panicked, ret, kres>>

NextMax ==
    \/ Kadane
    \/ DivideConquer

SpecMax == Init /\ [][NextMax]_vars

HeapSort ==
    /\ called = {}
    /\ called' = {"heap_sort"}
    /\ src' = heap_sort(Tagged(input))
    /\ ret' = Unit
    /\ UNCHANGED <<part, input, panicked, kres, dres>>

BubbleSortLr ==
    /\ called = {}
    /\ called' = {"bubble_sort_lr"}
    /\ src' = bubble_sort_lr(Tagged(input))
    /\ ret' = Unit
    /\ UNCHANGED <<part, input, panicked, kres, dres>>

\* either build of the crate: with or without overflow checks
BubbleSortRl ==
    /\ called = {}
    /\ called' = {"bubble_sort_rl"}
    /\ \E overflow_checks \in BOOLEAN :
         LET r == bubble_sort_rl(Tagged(input), overflow_checks) IN
         /\ src' = r.src
         /\ panicked' = r.panicked
         /\ ret' = IF r.panicked THEN NoCall ELSE Unit
    /\ UNCHANGED <<part, input, kres, dres>>

\* the public sort entry points
NextEntry ==
    \/ NextSort
    \/ CountSort
    \/ HeapSort
    \/ BubbleSortLr
    \/ BubbleSortRl

SpecEntry == Init /\ [][NextEntry]_vars

\* one call of lomuto_partitioning on the whole slice
LomutoPartition ==
    /\ called = {}
    /\ called' = {"lomuto_partitioning"}
    /\ LET p == lomuto_partitioning(Tagged(input)) IN
         /\ src' = p.src
         /\ panicked' = p.panicked
         /\ ret' = IF p.panicked THEN NoCall ELSE p.q
    /\ UNCHANGED <<part, input, kres, dres>>

\* entry of hoare_partitioning: pivot_idx = 0, the cursors at 0 and src.len()
HoareStart ==
    /\ called = {}
    /\ called' = {"hoare_partitioning"}
    /\ src' = Tagged(input)
    /\ part' = [state |-> "looping", l |-> 0, g |-> Len(input), pivot_idx |-> 0,
                pivot |-> None]
    /\ UNCHANGED <<input, panicked, ret, kres, dres>>

\* one pass of its outer loop
HoareIter ==
    /\ part.state = "looping"
    /\ LET it == hoare_iter(src, part.pivot_idx, part.l, part.g) IN
         /\ src' = it.src
         /\ part' = [part EXCEPT !.state = it.state, !.l = it.l, !.g = it.g,
                                 !.pivot = it.pivot]
         /\ panicked' = (it.state = "panicked")
         /\ ret' = IF it.state = "returned" THEN it.g ELSE ret
    /\ UNCHANGED <<input, called, kres, dres>>

NextPartition ==
    \/ LomutoPartition
    \/ HoareStart
    \/ HoareIter

SpecPartition == Init /\ [][NextPartition]_vars

\* every entry point, on one input
Next ==
    \/ NextEntry
    \/ NextCount
    \/ NextMax
    \/ NextPartition

Spec == Init /\ [][Next]_vars

\* ------------------------------------------------------------ properties
Sorted(keys) == \A i \in 1..(Len(keys) - 1) : keys[i] <= keys[i + 1]
Elems(s) == {s[i] : i \in 1..Len(s)}
\* tags are unique, so equal element sets of equal length are a permutation
PermutationOfInput(s) == Len(s) = Len(input) /\ Elems(s) = Elems(Tagged(input))
Stable(s) ==
    \A i, j \in 1..Len(s) : (i < j /\ Key(s[i]) = Key(s[j])) => TagOf(s[i]) < TagOf(s[j])

\* C1: after quick_sort(seq, strategy) returns, with either strategy, seq is in
\* ascending order and is a permutation of its contents at entry.
C1_QuickSortSorts ==
    \A p \in Partitioners :
        p \in called => /\ Sorted(Keys(src))
                        /\ PermutationOfInput(src)

C1_Witness ==
    /\ "Hoare" \in called
    /\ Len(input) >= 4
    /\ src # Tagged(input)
    /\ \E i \in 1..Len(input) : input[i] = input[1] /\ i > 1

\* C2: after merge_sort(seq) returns, seq is in ascending order and is a
\* permutation of its contents at entry; no default placeholder remains.
C2_MergeSortSorts ==
    "merge_sort" \in called => /\ Sorted(Keys(src))
                               /\ PermutationOfInput(src)
                               /\ DefaultElem \notin Elems(src)

C2_Witness ==
    /\ "merge_sort" \in called
    /\ Len(input) >= 3
    /\ src # Tagged(input)

\* C3: merge_sort is stable: elements of equal key keep, in the output, the
\* relative order they had in the input.
C3_MergeSortStable == "merge_sort" \in called => Stable(src)

C3_Witness ==
    /\ "merge_sort" \in called
    /\ Len(input) >= 3
    /\ src # Tagged(input)
    /\ \E i, j \in 1..Len(src) : i < j /\ Key(src[i]) = Key(src[j])
    /\ input[1] = input[Len(input)]
\* for every value, as many occurrences in s as in t
SameMultiset(s, t) ==
    /\ Len(s) = Len(t)
    /\ \A v \in Values :
           Cardinality({i \in 1..Len(s) : s[i] = v}) = Cardinality({i \in 1..Len(t) : t[i] = v})
Returned(f) == f \in called /\ ~panicked
Representable(v) == TryIntoUsize(v) # None
AllRepresentable(s) == \A i \in 1..Len(s) : Representable(s[i])
HasNegative(s) == \E i \in 1..Len(s) : s[i] < 0

\* C4: when every element is a non-negative integer representable as a table
\* key, then after count_sort returns, seq is in ascending order and is a
\* permutation of its contents at entry.
C4_CountSortSorts ==
    (Returned("count_sort") /\ AllRepresentable(input)) =>
        /\ Sorted(src)
        /\ SameMultiset(src, input)

C4_Witness ==
    /\ Returned("count_sort")
    /\ AllRepresentable(input)
    /\ Len(input) >= 4
    /\ src # input
    /\ \E i, j \in 1..Len(input) : i # j /\ input[i] = input[j]
    /\ \E i, j \in 1..Len(input) : input[i] > input[j] + 1

\* C5: when the input holds a negative value, count_sort returns with every
\* position of seq holding the value it held at entry.
C5_NegativeLeavesUnchanged ==
    ("count_sort" \in called /\ HasNegative(input)) =>
        /\ ~panicked
        /\ src = input

C5_Witness ==
    /\ Returned("count_sort")
    /\ HasNegative(input)
    /\ Len(input) >= 3
    /\ ~Sorted(input)
    /\ \E i \in 1..Len(input) : Representable(input[i])
    /\ src = input

\* C6: when some element cannot be represented as a key of the index type
\* (also when the minimum is representable and the maximum is not), count_sort
\* returns normally and leaves seq unmodified.
C6_NeverAborts ==
    ("count_sort" \in called /\ ~AllRepresentable(input)) =>
        /\ ~panicked
        /\ src = input

\* C7: the value count_sort returns tells "sorted in place" from "left
\* unmodified, inapplicable": no call of the other outcome returns the same value.
C7_ReturnTellsOutcome ==
    Returned("count_sort") =>
        \A other \in Inputs :
            (count_sort_applies(other) # count_sort_applies(input)
               /\ ~count_sort(other).panicked)
            => count_sort_ret(other) # ret

\* C8: the prefix-table count sort (cumulative table, input scanned front to
\* back, each element placed at table[key] - 1, table[key] decremented) leaves
\* elements of equal key in the relative order they had in the input.
C8_PrefixTableStable == Returned("count_sort_clrs") => Stable(src)

\* --- max subarray
RECURSIVE SumOf(_)
SumOf(s) == IF Len(s) = 0 THEN 0 ELSE s[1] + SumOf(Tail(s))
\* the maximum of 0 and the sums of the non-empty contiguous sub-ranges
BestSum(s) ==
    LET sums == {SumOf(Slice(s, p[1], p[2])) :
                    p \in {q \in (0..Len(s)) \X (1..Len(s)) : q[1] < q[2]}} \cup {0}
    IN  CHOOSE m \in sums : \A x \in sums : x <= m
BothCalled == {"kadane", "dc"} \subseteq called
AllNegative(s) == \A i \in 1..Len(s) : s[i] < 0

\* C9: on a non-empty input, find_max_sum_subarray_kadane and
\* find_max_sum_subarray_dc return the same sum, the maximum of 0 and the
\* largest sum of a non-empty contiguous sub-range.
C9_SumsAgree ==
    (BothCalled /\ Len(input) >= 1) =>
        /\ ~dres.aborted
        /\ kres.sum = dres.sum
        /\ kres.sum = BestSum(input)

C9_Witness ==
    /\ BothCalled
    /\ Len(input) >= 4
    /\ kres.sum = dres.sum
    /\ kres.sum > 0
    /\ kres.rng # dres.rng
    /\ HasNegative(input)

\* C10: when every element of a non-empty input is negative, both routines
\* return no sub-range and the sum 0.
C10_AllNegativeNone ==
    (BothCalled /\ Len(input) >= 1 /\ AllNegative(input)) =>
        /\ kres = Result(None, 0)
        /\ dres = Result(None, 0)

C10_Witness ==
    /\ BothCalled
    /\ Len(input) >= 3
    /\ AllNegative(input)
    /\ input[1] # input[2]
    /\ dres = Result(None, 0)
    /\ kres = Result(None, 0)
\* C11: on the empty sequence find_max_sum_subarray_dc terminates and returns
\* what find_max_sum_subarray_kadane returns, no sub-range and the sum 0; and
\* its recursion terminates for every input length from 0 upward.
C11_DcTerminates ==
    /\ "dc" \in called => ~dres.aborted
    /\ (BothCalled /\ Len(input) = 0) =>
           /\ dres = Result(None, 0)
           /\ dres.sum = kres.sum

\* the offsets of the contiguous non-empty sub-ranges of s
Ranges(s) == {q \in (0..Len(s)) \X (1..Len(s)) : q[1] < q[2]}
RangeSum(s, r) == SumOf(Slice(s, r[1], r[2]))
RangeLen(r) == r[2] - r[1]
\* r is a longest one among the sub-ranges of s that sum to m
LongestWithSum(s, r, m) ==
    \A o \in Ranges(s) : RangeSum(s, o) = m => RangeLen(o) <= RangeLen(r)

\* C12 as the spec states it: the sub-range Kadane returns sums to the returned
\* maximum and no other sub-range with that sum is longer.
C12_KadaneLongest ==
    ("kadane" \in called /\ kres.rng # None) =>
        /\ RangeSum(input, Unwrap(kres.rng)) = kres.sum
        /\ LongestWithSum(input, Unwrap(kres.rng), kres.sum)

\* C12 amended: the sub-range Kadane returns sums to the returned maximum; no
\* sub-range with that sum ends further right, and none that ends at the same
\* place is longer.
C12_KadaneLastEnding ==
    ("kadane" \in called /\ kres.rng # None) =>
        LET r == Unwrap(kres.rng) IN
        /\ r \in Ranges(input)
        /\ RangeSum(input, r) = kres.sum
        /\ \A o \in Ranges(input) :
               RangeSum(input, o) = kres.sum =>
                   /\ o[2] <= r[2]
                   /\ (o[2] = r[2] => o[1] >= r[1])

C12_Witness ==
    /\ "kadane" \in called
    /\ kres.rng # None
    /\ kres.sum > 0
    /\ ~LongestWithSum(input, Unwrap(kres.rng), kres.sum)

\* C13: when find_max_sum_subarray_dc returns a sub-range of a non-empty input,
\* it sums to the returned maximum and no sub-range of the whole input with
\* that sum is longer.
C13_DcLongest ==
    ("dc" \in called /\ Len(input) >= 1 /\ dres.rng # None) =>
        LET r == Unwrap(dres.rng) IN
        /\ r \in Ranges(input)
        /\ RangeSum(input, r) = dres.sum
        /\ LongestWithSum(input, r, dres.sum)

C13_Witness ==
    /\ BothCalled
    /\ Len(input) >= 4
    /\ dres.rng # None
    /\ dres.sum > 0
    /\ kres.rng # dres.rng
    /\ RangeLen(Unwrap(dres.rng)) >= 2
    /\ Cardinality({o \in Ranges(input) : RangeSum(input, o) = dres.sum}) >= 3
\* the sorts that run on ints; the others run on tagged elements
SrcKeys == IF called \subseteq {"count_sort"} THEN src ELSE Keys(src)
SortEntryPoints ==
    {"Lomuto", "Hoare", "merge_sort", "count_sort", "heap_sort",
     "bubble_sort_lr", "bubble_sort_rl"}

\* C14: every public sort entry point takes a sequence of length 0 or 1 as a
\* sorted base case: the call returns normally and leaves the sequence unchanged.
C14_TrivialBaseCase ==
    (Len(input) <= 1 /\ called # {} /\ called \subseteq SortEntryPoints) =>
        /\ ~panicked
        /\ ret = Unit
        /\ SrcKeys = input

\* every comparison sort sorts, on the calls that return
EntrySorts ==
    (called # {} /\ called \subseteq SortEntryPoints \ {"count_sort"} /\ ~panicked) =>
        /\ Sorted(Keys(src))
        /\ PermutationOfInput(src)
\* --- partitions
LomutoReturned == called = {"lomuto_partitioning"} /\ ~panicked
HoareCalled == called = {"hoare_partitioning"}
HoareReturned == HoareCalled /\ part.state = "returned"
\* at least one pass of the outer loop ran
HoarePassed == HoareCalled /\ part.pivot # None
InRange(i) == 0 <= i /\ i <= Len(input) - 1

\* C15: after one Lomuto partition of a non-empty range, with q the returned
\* index: the element at q is the one that was last at entry (the pivot), every
\* element left of q is <= the pivot, every element right of q is > the pivot,
\* 0 <= q <= len - 1, and the range is a permutation of its contents at entry.
C15_LomutoPartition ==
    (called = {"lomuto_partitioning"} /\ Len(input) >= 1) =>
        /\ ~panicked
        /\ InRange(ret)
        /\ At(src, ret) = Tagged(input)[Len(input)]
        /\ \A i \in 0..(ret - 1) : Key(At(src, i)) <= input[Len(input)]
        /\ \A i \in (ret + 1)..(Len(input) - 1) : Key(At(src, i)) > input[Len(input)]
        /\ PermutationOfInput(src)

C15_Witness ==
    /\ LomutoReturned
    /\ Len(input) >= 4
    /\ 0 < ret /\ ret < Len(input) - 1
    /\ \E i \in 0..(ret - 1) : Key(At(src, i)) = input[Len(input)]
    /\ \E i \in 0..(ret - 1) : Key(At(src, i)) < input[Len(input)]
    /\ src # Tagged(input)

\* C16: in one Hoare partition of a range of length >= 2 no cursor indexes
\* outside the range, and with q the returned right-cursor position:
\* 0 <= q < len - 1, every element at an index <= q is <= every element at an
\* index > q, and the range is a permutation of its contents at entry.
C16_HoarePartition ==
    (HoareCalled /\ Len(input) >= 2) =>
        /\ part.state # "panicked"
        /\ ~panicked
        /\ HoarePassed => (InRange(part.l) /\ InRange(part.g))
        /\ PermutationOfInput(src)
        /\ HoareReturned =>
               /\ 0 <= ret /\ ret < Len(input) - 1
               /\ \A i \in 0..ret : \A j \in (ret + 1)..(Len(input) - 1) :
                      Key(At(src, i)) <= Key(At(src, j))

C16_Witness ==
    /\ HoareReturned
    /\ Len(input) >= 4
    /\ src # Tagged(input)
    /\ At(src, 0) # Tagged(input)[Len(input)]
    /\ \E i \in 2..Len(input) : input[i] = input[1]

\* C17: throughout one Hoare partition the value the cursors are compared
\* against is the value the first element of the range had at entry; a swap
\* that moves the element at the first position does not change it.
C17_PivotByValue == HoarePassed => Unwrap(part.pivot) = input[1]

\* C18: in hoare_partitioning the left cursor never leaves index 0; on every
\* non-empty range it returns the split 0 with a minimum of the range at index
\* 0, so quick_sort with the Hoare strategy recurses on the sub-ranges of
\* lengths 1 and len - 1.
C18_HoareLeftCursorStuck ==
    (HoareCalled /\ Len(input) >= 1) =>
        /\ part.l = 0
        /\ part.state # "panicked"
        /\ HoareReturned =>
               /\ ret = 0
               /\ \A i \in 1..Len(src) : Key(At(src, 0)) <= Key(src[i])
               /\ LET r == run("Hoare", Tagged(input)) IN
                      /\ r.src = src
                      /\ Len(Slice(r.src, 0, r.end_left)) = 1
                      /\ Len(Slice(r.src, r.start_right, Len(r.src))) = Len(input) - 1

C18_Witness ==
    /\ HoareReturned
    /\ Len(input) >= 4
    /\ ret = 0
    /\ input[1] > input[2]
    /\ input[2] < input[Len(input)]
    /\ At(src, 0) # Tagged(input)[1]

\* the passes of HoareIter end where hoare_partitioning ends
HoareStepsAgree ==
    (HoareCalled /\ part.state \in {"returned", "panicked"}) =>
        LET p == hoare_partitioning(Tagged(input)) IN
        /\ p.src = src
        /\ p.panicked = panicked
        /\ ~panicked => p.q = ret
====
